---------------------------- MODULE Spec2Model ----------------------------
(***************************************************************************)
(* A model of src/src/App.tsx: the inheritance calculator's App component. *)
(*                                                                         *)
(* State: the component's useState cells (lang, view, step, loading,       *)
(* results, formData) and the calculateInheritance calls that are still    *)
(* awaited (pending).  The two useMemo values, netEstateCalculations and   *)
(* individualHeirs, are functions of that state and are operators here.    *)
(*                                                                         *)
(* Text is a sequence of characters, so that the substring search of       *)
(* getShare is computed and not assumed.  Arabic letters are written by    *)
(* their Unicode names (ZAIN, WAW, JEEM, ...); the words are spelled as in *)
(* the source.  The division of a class amount by a member count is the    *)
(* division of JavaScript numbers, rounded as IEEE 754 doubles are.        *)
(***************************************************************************)
EXTENDS Integers, Sequences, FiniteSets, Bags, TLC

VARIABLES lang, view, step, loading, results, formData,
          pending, resultsFor, lastOutcome

vars == <<lang, view, step, loading, results, formData,
          pending, resultsFor, lastOutcome>>

----------------------------------------------------------------------------
(* Bounds of the model *)

\* money values a form field takes in the net-estate specification
MaxMoney == 9
\* money values a form field and a response's share take in the application
\* specification
MaxAppMoney == 1
\* calculateInheritance calls awaited at once
MaxPending == 2
\* members of each of two surviving heir classes
MaxCount == 2
\* members of a single surviving heir class
MaxMembers == 6
\* shares in one response of the heirs specification
MaxShares == 2

(* Program constants *)

\* StepIndicator totalSteps={4}; Next is offered while step < 4
TotalSteps == 4

Languages == {"ar", "en"}

Max(a, b) == IF a >= b THEN a ELSE b

Min(a, b) == IF a <= b THEN a ELSE b

----------------------------------------------------------------------------
(* Text *)

UpperCase == <<"A", "B", "C", "D", "E", "F", "G", "H", "I", "J", "K", "L", "M",
               "N", "O", "P", "Q", "R", "S", "T", "U", "V", "W", "X", "Y", "Z">>

LowerCase == <<"a", "b", "c", "d", "e", "f", "g", "h", "i", "j", "k", "l", "m",
               "n", "o", "p", "q", "r", "s", "t", "u", "v", "w", "x", "y", "z">>

\* the lower-case letter of each upper-case letter
LowerOf == [c \in { UpperCase[i] : i \in 1..26 } |->
              LowerCase[CHOOSE i \in 1..26 : UpperCase[i] = c]]

\* String.prototype.toLowerCase, one character: the Arabic letters, the
\* space and the lower-case letters have no other lower case
LowerChar(c) == IF c \in DOMAIN LowerOf THEN LowerOf[c] ELSE c

\* String.prototype.toLowerCase
toLowerCase(s) == [i \in 1..Len(s) |-> LowerChar(s[i])]

\* String.prototype.includes
includes(s, k) ==
    \E i \in 0..(Len(s) - Len(k)) : \A j \in 1..Len(k) : s[i + j] = k[j]

(* The keyword lists of individualHeirs, spelled as in the source *)

KwHusband == { <<"h","u","s","b","a","n","d">>, <<"ZAIN","WAW","JEEM">> }

KwWives ==
    { <<"w","i","f","e">>, <<"w","i","v","e","s">>,
      <<"ZAIN","WAW","JEEM","TEH_MARBUTA">>,
      <<"ZAIN","WAW","JEEM","ALEF","TEH">> }

KwFather == { <<"f","a","t","h","e","r">>, <<"ALEF_HAMZA","BEH">> }

KwMother == { <<"m","o","t","h","e","r">>, <<"ALEF_HAMZA","MEEM">> }

KwSons ==
    { <<"s","o","n">>, <<"s","o","n","s">>,
      <<"ALEF","BEH","NOON">>,
      <<"ALEF_HAMZA","BEH","NOON","ALEF","HAMZA">> }

KwDaughters ==
    { <<"d","a","u","g","h","t","e","r">>,
      <<"d","a","u","g","h","t","e","r","s">>,
      <<"BEH","NOON","TEH">>, <<"BEH","NOON","ALEF","TEH">>,
      <<"ALEF","BEH","NOON","TEH_MARBUTA">> }

KwFullBrothers ==
    { <<"f","u","l","l"," ","b","r","o","t","h","e","r">>,
      <<"ALEF_HAMZA","KHAH"," ","SHEEN","QAF","YEH","QAF">> }

KwFullSisters ==
    { <<"f","u","l","l"," ","s","i","s","t","e","r">>,
      <<"ALEF_HAMZA","KHAH","TEH"," ","SHEEN","QAF","YEH","QAF","TEH_MARBUTA">> }

----------------------------------------------------------------------------
(* The form *)

DefaultFormData ==
    [ deceasedGender |-> "male", estateValue |-> 0, currency |-> "SAR",
      debts |-> 0, willAmount |-> 0,
      hasHusband |-> FALSE, wivesCount |-> 0, sonsCount |-> 0,
      daughtersCount |-> 0, hasFather |-> FALSE, hasMother |-> FALSE,
      fullBrothersCount |-> 0, fullSistersCount |-> 0,
      paternalBrothersCount |-> 0, paternalSistersCount |-> 0 ]

\* the useMemo of lines 45-59; x || 0 is x for every number but NaN
netEstateCalculations(fd) ==
    LET estate == fd.estateValue
        debts == fd.debts
        initialRemainder == Max(0, estate - debts)
        actualWill == fd.willAmount
        net == Max(0, initialRemainder - actualWill)
    IN  [ estate |-> estate, debts |-> debts, will |-> actualWill, net |-> net,
          \* actualWill > estate / 3, the division taken exactly
          isWillOverLimit |-> (3 * actualWill > estate) /\ (estate > 0) ]


----------------------------------------------------------------------------
(* Numbers: the amounts of a response are whole numbers; an individual's   *)
(* amount is a JavaScript number, an IEEE 754 double.  A positive double   *)
(* is [exp |-> e, hi |-> h, lo |-> l]: its 53-bit significand m is         *)
(* h * 2^26 + l, with 2^52 <= m < 2^53, and its value m * 2^(e - 52); zero *)
(* is [exp |-> 0, hi |-> 0, lo |-> 0].                                     *)

\* the bits of a double's significand
MantissaBits == 53

\* a mantissa is kept in two limbs, hi * Limb + lo, with Limb <= hi < 2 Limb
\* and lo < Limb, so that every step fits a machine word
LowBits == MantissaBits \div 2

Limb == 2 ^ LowBits

DoubleZero == [exp |-> 0, hi |-> 0, lo |-> 0]

\* the mantissa hi * Limb + lo < 4 * 2^52, times 2^(e - 52), with a guard bit
\* and a sticky rest below it, rounded to the nearest double, ties to the
\* even one
RoundToDouble(e, hi, lo, guard, sticky) ==
    LET wide == hi >= 2 * Limb
        h == IF wide THEN hi \div 2 ELSE hi
        l == IF wide THEN (hi % 2) * (Limb \div 2) + lo \div 2 ELSE lo
        g == IF wide THEN lo % 2 ELSE guard
        s == IF wide THEN (guard = 1 \/ sticky) ELSE sticky
        x == IF wide THEN e + 1 ELSE e
        up == g = 1 /\ (s \/ l % 2 = 1)
    IN  IF ~up THEN [exp |-> x, hi |-> h, lo |-> l]
        ELSE IF l + 1 < Limb THEN [exp |-> x, hi |-> h, lo |-> l + 1]
        ELSE IF h + 1 < 2 * Limb THEN [exp |-> x, hi |-> h + 1, lo |-> 0]
        ELSE [exp |-> x + 1, hi |-> Limb, lo |-> 0]

\* r * Limb divided by n, quotient and remainder, for r < 2 n
LimbOf(r, n) ==
    [quot |-> r * (Limb \div n) + (r * (Limb % n)) \div n,
     rem |-> (r * (Limb % n)) % n]

\* a / n for n <= a < 2 n, times 2^e
DivideNormal(a, n, e) ==
    LET high == LimbOf(a, n)
        low == LimbOf(high.rem, n)
    IN  RoundToDouble(e, high.quot, low.quot, (2 * low.rem) \div n,
                      (2 * low.rem) % n # 0)

\* a / n times 2^e for positive a and n, brought to n <= a < 2 n
RECURSIVE Normalise(_, _, _)
Normalise(a, n, e) ==
    IF a >= 2 * n THEN Normalise(a, 2 * n, e + 1)
    ELSE IF a < n THEN Normalise(2 * a, n, e - 1)
    ELSE [a |-> a, n |-> n, e |-> e]

\* the JavaScript quotient a / n of whole numbers a >= 0 and n >= 1
DoubleDiv(a, n) ==
    IF a = 0 THEN DoubleZero
    ELSE LET s == Normalise(a, n, 0) IN DivideNormal(s.a, s.n, s.e)

----------------------------------------------------------------------------
(* individualHeirs, the useMemo of lines 61-145 *)

\* results.shares.find(s => keywords.some(k =>
\*     s.heir.toLowerCase().includes(k.toLowerCase())));
\* << >> is undefined, <<s>> is the share found
getShare(shares, keywords) ==
    LET hits == { i \in 1..Len(shares) :
                    LET heir == toLowerCase(shares[i].heir)
                    IN  \E k \in keywords : includes(heir, toLowerCase(k)) }
    IN  IF hits = {} THEN <<>>
        ELSE <<shares[CHOOSE i \in hits : \A j \in hits : i <= j]>>

\* labels.<key> of TRANSLATIONS.individualHeirLabels[lang], followed by
\* " <index>" when index > 0
Label(key, lg, index) == [label |-> key, lang |-> lg, index |-> index]

\* the entry pushed for the husband, the father or the mother
SingleEntry(present, found, key, lg) ==
    IF present /\ found # <<>>
    THEN << [ name |-> Label(key, lg, 0),
              amount |-> DoubleDiv(found[1].amount, 1),
              percentage |-> DoubleDiv(found[1].sharePercentage, 1),
              fraction |-> found[1].shareFraction ] >>
    ELSE <<>>

\* GroupEntries with the loop stopping one member early (i < count)
GroupEntriesStopsEarly(count, found, key, lg) ==
    IF count > 0 /\ found # <<>>
    THEN [ i \in 1..(count - 1) |->
             [ name |-> Label(key, lg, IF count > 1 THEN i ELSE 0),
               amount |-> DoubleDiv(found[1].amount, count),
               percentage |-> DoubleDiv(found[1].sharePercentage, count),
               fraction |-> found[1].shareFraction ] ]
    ELSE <<>>

\* the loop of a group whose single member carries no number (wives, sons,
\* daughters): lines 71-85, 94-108, 109-123
GroupEntries(count, found, key, lg) ==
    IF count > 0 /\ found # <<>>
    THEN [ i \in 1..count |->
             [ name |-> Label(key, lg, IF count > 1 THEN i ELSE 0),
               amount |-> DoubleDiv(found[1].amount, count),
               percentage |-> DoubleDiv(found[1].sharePercentage, count),
               fraction |-> found[1].shareFraction ] ]
    ELSE <<>>

\* the loop of a group whose members are always numbered (full brothers,
\* full sisters): lines 124-143
NumberedEntries(count, found, key, lg) ==
    IF count > 0 /\ found # <<>>
    THEN [ i \in 1..count |->
             [ name |-> Label(key, lg, i),
               amount |-> DoubleDiv(found[1].amount, count),
               percentage |-> DoubleDiv(found[1].sharePercentage, count),
               fraction |-> found[1].shareFraction ] ]
    ELSE <<>>

individualHeirs(res, fd, lg) ==
    IF ~res.present THEN <<>>
    ELSE
      SingleEntry(fd.hasHusband, getShare(res.shares, KwHusband), "husband", lg)
      \o GroupEntries(fd.wivesCount, getShare(res.shares, KwWives), "wife", lg)
      \o SingleEntry(fd.hasFather, getShare(res.shares, KwFather), "father", lg)
      \o SingleEntry(fd.hasMother, getShare(res.shares, KwMother), "mother", lg)
      \o GroupEntries(fd.sonsCount, getShare(res.shares, KwSons), "son", lg)
      \o GroupEntries(fd.daughtersCount, getShare(res.shares, KwDaughters),
                      "daughter", lg)
      \o NumberedEntries(fd.fullBrothersCount,
                         getShare(res.shares, KwFullBrothers), "brother", lg)
      \o NumberedEntries(fd.fullSistersCount,
                         getShare(res.shares, KwFullSisters), "sister", lg)

----------------------------------------------------------------------------
(* calculateInheritance (./services/geminiService): an external call whose *)
(* answer the component does not compute.  A response is any list of       *)
(* shares; the heir names below are the ones the keyword lists expect, and *)
(* the usual names of the two paternal classes.                            *)

HeirClasses ==
    { "Husband", "WifeGroup", "Father", "Mother", "SonGroup", "DaughterGroup",
      "FullBrotherGroup", "FullSisterGroup",
      "PaternalBrotherGroup", "PaternalSisterGroup" }

HeirNames ==
    { [class |-> "Husband", language |-> "en", text |-> <<"H","u","s","b","a","n","d">>],
      [class |-> "Husband", language |-> "ar", text |-> <<"ZAIN","WAW","JEEM">>],
      [class |-> "WifeGroup", language |-> "en", text |-> <<"W","i","f","e">>],
      [class |-> "WifeGroup", language |-> "en", text |-> <<"W","i","v","e","s">>],
      [class |-> "WifeGroup", language |-> "ar",
       text |-> <<"ZAIN","WAW","JEEM","TEH_MARBUTA">>],
      [class |-> "WifeGroup", language |-> "ar",
       text |-> <<"ZAIN","WAW","JEEM","ALEF","TEH">>],
      [class |-> "Father", language |-> "en", text |-> <<"F","a","t","h","e","r">>],
      [class |-> "Father", language |-> "ar", text |-> <<"ALEF_HAMZA","BEH">>],
      [class |-> "Mother", language |-> "en", text |-> <<"M","o","t","h","e","r">>],
      [class |-> "Mother", language |-> "ar", text |-> <<"ALEF_HAMZA","MEEM">>],
      [class |-> "SonGroup", language |-> "en", text |-> <<"S","o","n">>],
      [class |-> "SonGroup", language |-> "en", text |-> <<"S","o","n","s">>],
      [class |-> "SonGroup", language |-> "ar", text |-> <<"ALEF","BEH","NOON">>],
      [class |-> "SonGroup", language |-> "ar",
       text |-> <<"ALEF_HAMZA","BEH","NOON","ALEF","HAMZA">>],
      [class |-> "DaughterGroup", language |-> "en",
       text |-> <<"D","a","u","g","h","t","e","r">>],
      [class |-> "DaughterGroup", language |-> "en",
       text |-> <<"D","a","u","g","h","t","e","r","s">>],
      [class |-> "DaughterGroup", language |-> "ar", text |-> <<"BEH","NOON","TEH">>],
      [class |-> "DaughterGroup", language |-> "ar",
       text |-> <<"BEH","NOON","ALEF","TEH">>],
      [class |-> "DaughterGroup", language |-> "ar",
       text |-> <<"ALEF","BEH","NOON","TEH_MARBUTA">>],
      [class |-> "FullBrotherGroup", language |-> "en",
       text |-> <<"F","u","l","l"," ","B","r","o","t","h","e","r">>],
      [class |-> "FullBrotherGroup", language |-> "ar",
       text |-> <<"ALEF_HAMZA","KHAH"," ","SHEEN","QAF","YEH","QAF">>],
      [class |-> "FullSisterGroup", language |-> "en",
       text |-> <<"F","u","l","l"," ","S","i","s","t","e","r">>],
      [class |-> "FullSisterGroup", language |-> "ar",
       text |-> <<"ALEF_HAMZA","KHAH","TEH"," ","SHEEN","QAF","YEH","QAF","TEH_MARBUTA">>],
      [class |-> "PaternalBrotherGroup", language |-> "en",
       text |-> <<"P","a","t","e","r","n","a","l"," ","B","r","o","t","h","e","r">>],
      [class |-> "PaternalBrotherGroup", language |-> "ar",
       text |-> <<"ALEF_HAMZA","KHAH"," ","LAM","ALEF_HAMZA","BEH">>],
      [class |-> "PaternalSisterGroup", language |-> "en",
       text |-> <<"P","a","t","e","r","n","a","l"," ","S","i","s","t","e","r">>],
      [class |-> "PaternalSisterGroup", language |-> "ar",
       text |-> <<"ALEF_HAMZA","KHAH","TEH"," ","LAM","ALEF_HAMZA","BEH">>] }

\* the i-th share of a response: the amounts, percentages and fractions of
\* one response are pairwise different (1, 3, 5, ...)
ShareAt(text, i) ==
    [ heir |-> text, amount |-> 2 * i - 1, sharePercentage |-> 10 * i,
      shareFraction |-> <<1, i + 1>> ]

Response(shares) == [present |-> TRUE, shares |-> shares]

\* useState<CalculationResponse | null>(null)
NoResults == [present |-> FALSE, shares |-> <<>>]

\* the heir class a response's share is for
ClassOfName(text) == (CHOOSE n \in HeirNames : n.text = text).class

ClassesIn(shares) == { ClassOfName(shares[i].heir) : i \in 1..Len(shares) }

\* the share lists of k shares in one language, at most one per heir class
RECURSIVE ShareLists(_, _)
ShareLists(language, k) ==
    IF k = 0 THEN { <<>> }
    ELSE { Append(p[1], ShareAt(p[2].text, k)) :
             p \in { q \in ShareLists(language, k - 1) \X
                           { n \in HeirNames : n.language = language } :
                       q[2].class \notin ClassesIn(q[1]) } }

\* the responses of the heirs specification
HeirResponses ==
    { Response(l) :
        l \in UNION { ShareLists(lg, k) : lg \in Languages, k \in 0..MaxShares } }

\* the responses of the application specification: no share, or one share
\* to the sons
AppResponses ==
    { Response(<<>>) } \cup
    { Response(<< [ heir |-> <<"S","o","n","s">>, amount |-> a,
                    sharePercentage |-> 100, shareFraction |-> <<1, 1>> ] >>) :
        a \in 0..MaxAppMoney }

----------------------------------------------------------------------------
(* The component *)

\* a call of calculateInheritance(formData, lang) that is awaited
Call(fd, lg) == [formData |-> fd, lang |-> lg]

\* lines 14-36
Init ==
    /\ lang = "ar"
    /\ view = "home"
    /\ step = 1
    /\ loading = FALSE
    /\ results = NoResults
    /\ formData = DefaultFormData
    /\ pending = EmptyBag
    /\ resultsFor = <<>>
    /\ lastOutcome = "none"

\* line 178: the start button of the home view
Start ==
    /\ view = "home"
    /\ view' = "form"
    /\ UNCHANGED <<lang, step, loading, results, formData, pending,
                   resultsFor, lastOutcome>>

\* lines 199, 203: the language buttons of step 1
SetLang(l) ==
    /\ view = "form" /\ step = 1
    /\ lang' = l
    /\ UNCHANGED <<view, step, loading, results, formData, pending,
                   resultsFor, lastOutcome>>

\* line 215
BackStep ==
    /\ view = "form" /\ step > 1
    /\ step' = step - 1
    /\ UNCHANGED <<lang, view, loading, results, formData, pending,
                   resultsFor, lastOutcome>>

\* line 216
NextStep ==
    /\ view = "form" /\ step < TotalSteps
    /\ step' = step + 1
    /\ UNCHANGED <<lang, view, loading, results, formData, pending,
                   resultsFor, lastOutcome>>

\* setFormData on a field of steps 2-4, estate details
SetFormField(field, value) ==
    /\ view = "form" /\ step > 1
    /\ formData' = [formData EXCEPT ![field] = value]
    /\ UNCHANGED <<lang, view, step, loading, results, pending,
                   resultsFor, lastOutcome>>

\* lines 147-150: the Calculate button of step 4, up to the await
handleCalculate ==
    /\ view = "form" /\ step = TotalSteps
    /\ BagCardinality(pending) < MaxPending
    /\ loading' = TRUE
    /\ pending' = pending (+) SetToBag({Call(formData, lang)})
    /\ UNCHANGED <<lang, view, step, results, formData, resultsFor, lastOutcome>>

\* lines 150-152, 156-158: the awaited call resolves with res
Resolve(c, res) ==
    /\ BagIn(c, pending)
    /\ results' = res
    /\ view' = "results"
    /\ loading' = FALSE
    /\ pending' = pending (-) SetToBag({c})
    /\ resultsFor' = <<c>>
    /\ lastOutcome' = "ok"
    /\ UNCHANGED <<lang, step, formData>>

\* Reject with setView('results') moved into the finally block
RejectShowsResults(c) ==
    /\ BagIn(c, pending)
    /\ view' = "results"
    /\ loading' = FALSE
    /\ pending' = pending (-) SetToBag({c})
    /\ lastOutcome' = "error"
    /\ UNCHANGED <<lang, step, results, formData, resultsFor>>

\* lines 153-158: the awaited call rejects
Reject(c) ==
    /\ BagIn(c, pending)
    /\ loading' = FALSE
    /\ pending' = pending (-) SetToBag({c})
    /\ lastOutcome' = "error"
    /\ UNCHANGED <<lang, view, step, results, formData, resultsFor>>

MoneyFields == {"estateValue", "debts", "willAmount"}

\* the fields a calculation's outcome is compared with in the application
\* specification
AppFields == {"estateValue", "debts"}

Next ==
    \/ Start
    \/ \E l \in Languages : SetLang(l)
    \/ BackStep
    \/ NextStep
    \/ \E f \in AppFields, v \in 0..MaxAppMoney : SetFormField(f, v)
    \/ handleCalculate
    \/ \E c \in BagToSet(pending), res \in AppResponses : Resolve(c, res)
    \/ \E c \in BagToSet(pending) : Reject(c)

Spec == Init /\ [][Next]_vars

(* The net estate: the form's estate fields over a wider range *)

NextNet ==
    \/ Start
    \/ \E l \in Languages : SetLang(l)
    \/ BackStep
    \/ NextStep
    \/ \E f \in MoneyFields, v \in 0..MaxMoney : SetFormField(f, v)

SpecNet == Init /\ [][NextNet]_vars

(* The list of heirs: the form of a Calculate click that is awaited, over *)
(* the survivors of at most two heir classes or the many members of one,   *)
(* and the answer that arrives                                             *)

CountFields ==
    { "wivesCount", "sonsCount", "daughtersCount", "fullBrothersCount",
      "fullSistersCount", "paternalBrothersCount", "paternalSistersCount" }

SurvivorEdits ==
    { <<f, TRUE>> : f \in {"hasHusband", "hasFather", "hasMother"} } \cup
    ( CountFields \X (1..MaxCount) )

HeirForms ==
    { DefaultFormData } \cup
    { [DefaultFormData EXCEPT ![f] = n] : f \in CountFields, n \in 1..MaxMembers }
    \cup
    { [[DefaultFormData EXCEPT ![e[1][1]] = e[1][2]] EXCEPT ![e[2][1]] = e[2][2]] :
        e \in SurvivorEdits \X SurvivorEdits }

InitHeirs ==
    /\ lang \in Languages
    /\ view = "form"
    /\ step = TotalSteps
    /\ loading = TRUE
    /\ results = NoResults
    /\ formData \in HeirForms
    /\ pending = SetToBag({Call(formData, lang)})
    /\ resultsFor = <<>>
    /\ lastOutcome = "none"

NextHeirs ==
    \/ \E c \in BagToSet(pending), res \in HeirResponses : Resolve(c, res)
    \/ \E c \in BagToSet(pending) : Reject(c)

SpecHeirs == InitHeirs /\ [][NextHeirs]_vars

----------------------------------------------------------------------------
(* The claims *)

\* the net estate the claims speak of, times 3: distributable minus the
\* bequest capped at a third of it
Distributable(fd) == Max(0, fd.estateValue - fd.debts)

CappedNetTimes3(fd) ==
    3 * Distributable(fd) - Min(3 * fd.willAmount, Distributable(fd))

RECURSIVE SumAmounts(_)
SumAmounts(shares) ==
    IF shares = <<>> THEN 0 ELSE Head(shares).amount + SumAmounts(Tail(shares))

EntriesOf(list, key) == SelectSeq(list, LAMBDA e : e.name.label = key)

Amounts(list) == [i \in 1..Len(list) |-> list[i].amount]

GroupKeys == {"wife", "son", "daughter", "brother", "sister"}

LabelKeys == GroupKeys \cup {"husband", "father", "mother"}

KeywordsOf(key) ==
    CASE key = "husband" -> KwHusband
      [] key = "wife" -> KwWives
      [] key = "father" -> KwFather
      [] key = "mother" -> KwMother
      [] key = "son" -> KwSons
      [] key = "daughter" -> KwDaughters
      [] key = "brother" -> KwFullBrothers
      [] key = "sister" -> KwFullSisters

ClassOfLabel(key) ==
    CASE key = "husband" -> "Husband"
      [] key = "wife" -> "WifeGroup"
      [] key = "father" -> "Father"
      [] key = "mother" -> "Mother"
      [] key = "son" -> "SonGroup"
      [] key = "daughter" -> "DaughterGroup"
      [] key = "brother" -> "FullBrotherGroup"
      [] key = "sister" -> "FullSisterGroup"

\* the members of an heir class that the form records
MemberCount(fd, class) ==
    CASE class = "Husband" -> IF fd.hasHusband THEN 1 ELSE 0
      [] class = "WifeGroup" -> fd.wivesCount
      [] class = "Father" -> IF fd.hasFather THEN 1 ELSE 0
      [] class = "Mother" -> IF fd.hasMother THEN 1 ELSE 0
      [] class = "SonGroup" -> fd.sonsCount
      [] class = "DaughterGroup" -> fd.daughtersCount
      [] class = "FullBrotherGroup" -> fd.fullBrothersCount
      [] class = "FullSisterGroup" -> fd.fullSistersCount
      [] class = "PaternalBrotherGroup" -> fd.paternalBrothersCount
      [] class = "PaternalSisterGroup" -> fd.paternalSistersCount

Shown == individualHeirs(results, formData, lang)

\* C1: for every estate value, debts and bequest, the net estate of
\* netEstateCalculations is distributable - min(bequest, distributable / 3),
\* with distributable = max(0, estateValue - debts) (both sides times 3).
C1_NetEstateCapsBequest ==
    3 * netEstateCalculations(formData).net = CappedNetTimes3(formData)

\* C2: the over-limit warning isWillOverLimit is raised exactly when the
\* bequest exceeds a third of the debts-reduced estate.
C2_WarningIffOverCap ==
    netEstateCalculations(formData).isWillOverLimit
        <=> (3 * formData.willAmount > Distributable(formData))

\* C3: when debts exceed the estate value the computation fails: no result
\* is produced or displayed for such form data.
C3_NoResultWhenDebtsExceedEstate ==
    results.present =>
        resultsFor[1].formData.debts <= resultsFor[1].formData.estateValue

\* C4: the class share amounts of the result the app displays sum to the net
\* estate of the form data the app holds.  Stated for the results whose
\* amounts do sum to the net estate of the form data they were computed
\* from (the answers of a conserving engine): the claim's most favourable
\* case.
C4_SharesSumToNetEstate ==
    ( /\ view = "results"
      /\ results.present
      /\ SumAmounts(results.shares)
           = netEstateCalculations(resultsFor[1].formData).net )
    => SumAmounts(results.shares) = netEstateCalculations(formData).net

\* the mantissa of y moved d places down: what stays, the bit that drops
\* out last and whether any bit dropped out before it
ShiftDown(y, d) ==
    IF d = 0 THEN [hi |-> y.hi, lo |-> y.lo, guard |-> 0, sticky |-> FALSE]
    ELSE IF d <= LowBits
    THEN [hi |-> y.hi \div 2 ^ d,
          lo |-> (y.hi % 2 ^ d) * 2 ^ (LowBits - d) + y.lo \div 2 ^ d,
          guard |-> (y.lo % 2 ^ d) \div 2 ^ (d - 1),
          sticky |-> y.lo % 2 ^ (d - 1) # 0]
    ELSE LET k == d - LowBits
         IN  [hi |-> 0,
              lo |-> y.hi \div 2 ^ k,
              guard |-> (y.hi % 2 ^ k) \div 2 ^ (k - 1),
              sticky |-> y.hi % 2 ^ (k - 1) # 0 \/ y.lo # 0]

\* the JavaScript sum x + y of doubles x, y >= 0
DoubleAdd(x, y) ==
    IF x = DoubleZero THEN y
    ELSE IF y = DoubleZero THEN x
    ELSE LET big == IF x.exp >= y.exp THEN x ELSE y
             small == IF x.exp >= y.exp THEN y ELSE x
             d == big.exp - small.exp
         IN  IF d > MantissaBits THEN big
             ELSE LET part == ShiftDown(small, d)
                      lo == big.lo + part.lo
                  IN  RoundToDouble(big.exp, big.hi + part.hi + lo \div Limb,
                                    lo % Limb, part.guard, part.sticky)

\* the sum of a list of doubles, added from the left as
\* list.reduce((t, x) => t + x, 0) adds them
RECURSIVE DoubleSum(_)
DoubleSum(xs) ==
    IF xs = <<>> THEN DoubleZero
    ELSE DoubleAdd(DoubleSum(SubSeq(xs, 1, Len(xs) - 1)), xs[Len(xs)])

\* C5 as claimed: for every group class (wives, sons, daughters, full
\* brothers, full sisters) with n >= 1 members whose share getShare finds in
\* the result, individualHeirs holds exactly n entries of that class, all of
\* one amount, and the n amounts sum to the amount of the share found.
C5_EvenSplitSumsToShare ==
    results.present =>
        LET shown == Shown
        IN  \A key \in GroupKeys :
            LET n == MemberCount(formData, ClassOfLabel(key))
                s == getShare(results.shares, KeywordsOf(key))
                es == EntriesOf(shown, key)
            IN  (n >= 1 /\ s # <<>>) =>
                    /\ Len(es) = n
                    /\ \A i, j \in 1..Len(es) : es[i].amount = es[j].amount
                    /\ DoubleSum(Amounts(es)) = DoubleDiv(s[1].amount, 1)

\* C5 as amended: ... exactly n entries of that class, all of one amount,
\* the JavaScript quotient (amount of the share found) / n; the n amounts
\* sum to the amount of the share found, a whole number, when n is 1, 2 or
\* 4, and otherwise only up to the rounding of the quotient and of the sum.
C5_EvenSplit ==
    results.present =>
        LET shown == Shown
        IN  \A key \in GroupKeys :
            LET n == MemberCount(formData, ClassOfLabel(key))
                s == getShare(results.shares, KeywordsOf(key))
                es == EntriesOf(shown, key)
            IN  (n >= 1 /\ s # <<>>) =>
                    /\ Len(es) = n
                    /\ \A i \in 1..Len(es) :
                           es[i].amount = DoubleDiv(s[1].amount, n)
                    /\ n \in {1, 2, 4} =>
                           DoubleSum(Amounts(es)) = DoubleDiv(s[1].amount, 1)

\* C5's case: four sons, whose share of 1 is split into four quarters
C5_Witness ==
    /\ results.present
    /\ formData.sonsCount = 4
    /\ getShare(results.shares, KwSons) # <<>>
    /\ Len(EntriesOf(Shown, "son")) = 4
    /\ \A i \in 1..4 : EntriesOf(Shown, "son")[i].amount = DoubleDiv(1, 4)

\* the heir classes with a member in the form
Surviving(fd) == { class \in HeirClasses : MemberCount(fd, class) >= 1 }

\* C6: in a result with at most one share per heir class, every individual
\* entry takes its amount, percentage and fraction from the result's share
\* of the entry's own class.  Stated for the results that hold one share
\* for each surviving class and no other, the survivors being of the eight
\* classes individualHeirs has keywords for, named as the keywords spell
\* them: the claim's most favourable case.
C6_EntryFromOwnClassShare ==
    ( /\ ClassesIn(results.shares) = Surviving(formData)
      /\ Surviving(formData) \subseteq { ClassOfLabel(key) : key \in LabelKeys } )
    =>
        LET shown == Shown
        IN  \A i \in 1..Len(shown) :
            LET e == shown[i]
                class == ClassOfLabel(e.name.label)
                n == MemberCount(formData, class)
            IN  \E j \in 1..Len(results.shares) :
                    LET s == results.shares[j]
                    IN  /\ ClassOfName(s.heir) = class
                        /\ e.amount = DoubleDiv(s.amount, n)
                        /\ e.percentage = DoubleDiv(s.sharePercentage, n)
                        /\ e.fraction = s.shareFraction

\* C7: every class share with a nonzero amount is expanded: each of the ten
\* heir classes with n >= 1 members and a nonzero share in the result has n
\* individual entries.
C7_EveryClassExpanded ==
    \A j \in 1..Len(results.shares) :
        LET s == results.shares[j]
            class == ClassOfName(s.heir)
            n == MemberCount(formData, class)
        IN  (s.amount # 0 /\ n >= 1) =>
                Cardinality({ i \in 1..Len(Shown) :
                                ClassOfLabel(Shown[i].name.label) = class }) = n

\* C8: two calculations with identical input yield identical results: a
\* completion for the input of the result held stores that same result.
C8_SameInputSameResult ==
    [][ (results.present /\ results'.present /\ resultsFor' = resultsFor)
            => results' = results ]_vars

\* C9: loading is true whenever a call started by handleCalculate is
\* outstanding, and false only when none is.
C9_LoadingIffOutstanding ==
    loading <=> (pending # EmptyBag)

=============================================================================
